---- MODULE Spec2Model ----
(***************************************************************************)
(* Model of shared_libraries/callbacks.py: the four callbacks the agent     *)
(* host invokes (rate_limit_callback, before_tool, after_tool,              *)
(* before_agent) and their helpers (validate_customer_id, lowercase_value), *)
(* all acting on one per-session state mapping.                             *)
(*                                                                          *)
(* Python values are tagged tuples:                                         *)
(*   None <<"none">>, bool <<"bool", b>>, int <<"int", n>>,                 *)
(*   str <<"str", seq of one-character strings>>,                           *)
(*   list <<"list", seq>>, tuple <<"tuple", seq>>, set <<"set", set>>,      *)
(*   dict <<"dict", function from key to value>>,                           *)
(*   a str the code builds from literals <<"text", seq of its fragments>>   *)
(*   (the empty str is Text(<< >>)); such strs occur only in results.       *)
(* A callback's outcome is <<"return", value>> or <<"raise", exception>>.   *)
(***************************************************************************)
EXTENDS Integers, Sequences, FiniteSets, TLC

VARIABLES
  state,        \* the session state mapping (callback_context.state)
  clock,        \* time.time(), in whole seconds
  returns,      \* return times of the latest rate_limit_callback calls
  calls,        \* number of rate_limit_callback calls made on the session, raising ones included
  ticks,        \* number of clock advances made by the environment
  th,           \* each thread's place in rate_limit_callback and what it has read
  request,      \* the latest llm_request.contents as lines 46-49 leave it
  overlaps,     \* number of calls that began while another was under way
  last          \* the latest callback invocation: its inputs, the state before, its outcome

throttle == <<clock, returns, calls, ticks, th, request, overlaps>>

vars == <<state, throttle, last>>

(* ------------------------------ bounds -------------------------------- *)

MaxCalls == 12
MaxTicks == 2
MaxOverlaps == 1
TickSteps == {1, 59, 61}

(* --------------------------- Python values ---------------------------- *)

None == <<"none">>
PyBool(b) == <<"bool", b>>
PyInt(n) == <<"int", n>>
PyStr(chars) == <<"str", chars>>
PyList(s) == <<"list", s>>
PyTuple(s) == <<"tuple", s>>
PySet(s) == <<"set", s>>
PyDict(f) == <<"dict", f>>
Text(pieces) == <<"text", pieces>>
EmptyDict == PyDict(<< >>)

Return(v) == <<"return", v>>
Raise(exc) == <<"raise", exc>>

isinstance(value, tag) == value[1] = tag

\* Python truthiness (bool(value)).
truthy(value) ==
  CASE value[1] = "none" -> FALSE
    [] value[1] = "bool" -> value[2]
    [] value[1] = "int" -> value[2] # 0
    [] value[1] = "str" -> Len(value[2]) > 0
    [] value[1] \in {"list", "tuple"} -> Len(value[2]) > 0
    [] value[1] = "set" -> value[2] # {}
    [] value[1] = "dict" -> DOMAIN value[2] # {}
    [] value[1] = "text" -> Len(value[2]) > 0
    [] OTHER -> TRUE

\* key in mapping, mapping.get(key), for a dict value.
has(d, key) == key \in DOMAIN d[2]
get(d, key) == IF key \in DOMAIN d[2] THEN d[2][key] ELSE None

\* The session state: a function from the keys present to their values.
EmptyState == [k \in {} |-> 0]
Put(st, key, value) ==
  [k \in DOMAIN st \cup {key} |-> IF k = key THEN value ELSE st[k]]

(* ------------------------- rate_limit_callback ------------------------ *)

RATE_LIMIT_SECS == 60
RPM_QUOTA == 10

\* The host threads that may run the callback on the session. Nothing in the
\* code keeps two of them from being inside it at once.
Threads == {"A", "B"}

\* llm_request.contents: a sequence of contents, each <<"parts", texts>> or,
\* with content.parts None, <<"none">>.
Parts(texts) == <<"parts", texts>>
NoParts == <<"none">>

\* Lines 46-49: every empty text becomes a space; iterating parts that is
\* None raises TypeError, the contents before it already rewritten.
normalize_contents(contents) ==
  IF \E i \in DOMAIN contents : contents[i] = NoParts
    THEN Raise("TypeError")
    ELSE Return([i \in DOMAIN contents |->
                   Parts([j \in DOMAIN contents[i][2] |->
                            IF contents[i][2][j] = "" THEN " "
                            ELSE contents[i][2][j]])])

RequestContents ==
  << <<Parts(<<"hi", "">>), Parts(<< >>)>>,
     <<Parts(<<"hi">>), NoParts>> >>

\* Lines 72-74: whether the incremented count is over the quota, and the
\* delay computed then.
quota_delay(request_count, elapsed_secs) ==
  IF request_count > RPM_QUOTA
    THEN [over |-> TRUE, delay |-> RATE_LIMIT_SECS - elapsed_secs + 1]
    ELSE [over |-> FALSE, delay |-> 0]

\* A thread's place in the callback and its local variables. pc names the
\* line the thread executes next: "l51" the reading of the time, "l52" the
\* test for timer_start, "l53" and "l54" the first call's two
\* writes, "l62" and "l63" the two reads, "l80" the write of the count,
\* "l76" the entry into time.sleep and "asleep" the sleep, "l77" and "l78"
\* the two writes of the reset, "l60" and "l82" the two returns.
Thread(pc, idx, now, fresh, timer_start, request_count, delay, wake) ==
  [pc |-> pc, idx |-> idx, now |-> now, fresh |-> fresh,
   timer_start |-> timer_start, request_count |-> request_count,
   delay |-> delay, wake |-> wake]

Idle == Thread("idle", 0, 0, FALSE, 0, 0, 0, 0)

At(call, pc) == [call EXCEPT !.pc = pc]

Push(hist, t) ==
  IF Len(hist) <= RPM_QUOTA THEN Append(hist, t) ELSE Append(Tail(hist), t)

\* The call of thread t ends with an exception.
Fail(t, exc) ==
  /\ th' = [th EXCEPT ![t] = Idle]
  /\ last' = [op |-> "rate_limit_callback", idx |-> th[t].idx,
              out |-> Raise(exc)]
  /\ UNCHANGED returns

\* A call takes thread A when it is free and thread B otherwise (the threads
\* are alike).
\* Lines 46-49: a call is made, the calls-th of the session, and its request
\* normalised; a request that holds a content without parts ends the call
\* with TypeError, the state untouched.
Begin(t, contents) ==
  /\ th[t].pc = "idle"
  /\ t = "A" \/ th["A"].pc # "idle"
  /\ calls < MaxCalls
  /\ calls' = calls + 1
  /\ request' = normalize_contents(contents)
  /\ overlaps' = IF \E u \in Threads : th[u].pc # "idle"
                  THEN overlaps + 1 ELSE overlaps
  /\ overlaps' <= MaxOverlaps
  /\ UNCHANGED <<state, clock, ticks, returns>>
  /\ IF request'[1] = "raise"
       THEN /\ last' = [op |-> "rate_limit_callback", idx |-> calls + 1,
                        out |-> request']
            /\ UNCHANGED th
       ELSE /\ th' = [th EXCEPT ![t] =
                        Thread("l51", calls + 1, 0, FALSE, 0, 0, 0, 0)]
            /\ UNCHANGED last

\* Line 51: the time is taken.
TakeTime(t) ==
  /\ th[t].pc = "l51"
  /\ th' = [th EXCEPT ![t] = [At(th[t], "l52") EXCEPT !.now = clock]]
  /\ UNCHANGED <<state, clock, returns, calls, ticks, request, overlaps, last>>

\* Line 52: the state is tested for timer_start.
TestStart(t) ==
  /\ th[t].pc = "l52"
  /\ th' = [th EXCEPT ![t] =
              IF "timer_start" \notin DOMAIN state
                THEN [At(th[t], "l53") EXCEPT !.fresh = TRUE,
                                               !.timer_start = th[t].now,
                                               !.request_count = 1]
                ELSE At(th[t], "l62")]
  /\ UNCHANGED <<state, clock, returns, calls, ticks, request, overlaps, last>>

\* Line 53: the first call stores its arrival time.
OpenWindow(t) ==
  /\ th[t].pc = "l53"
  /\ state' = Put(state, "timer_start", th[t].now)
  /\ th' = [th EXCEPT ![t] = At(th[t], "l54")]
  /\ UNCHANGED <<clock, returns, calls, ticks, request, overlaps, last>>

\* Line 54: the first call stores the count 1; logging and the return of
\* line 60 follow.
OpenCount(t) ==
  /\ th[t].pc = "l54"
  /\ state' = Put(state, "request_count", 1)
  /\ th' = [th EXCEPT ![t] = At(th[t], "l60")]
  /\ UNCHANGED <<clock, returns, calls, ticks, request, overlaps, last>>

\* Line 62: the count is read and incremented; a state that holds
\* timer_start and not yet request_count raises KeyError.
ReadCount(t) ==
  /\ th[t].pc = "l62"
  /\ UNCHANGED <<state, clock, calls, ticks, request, overlaps>>
  /\ IF "request_count" \notin DOMAIN state
       THEN Fail(t, "KeyError")
       ELSE /\ th' = [th EXCEPT ![t] =
                        [At(th[t], "l63") EXCEPT
                           !.request_count = state["request_count"] + 1]]
            /\ UNCHANGED <<returns, last>>

\* Lines 63-75: the window start is read; under the quota the thread goes on
\* to store the count, over it to the sleep of line 76 or, with no delay
\* left, to the reset.
ReadStart(t) ==
  /\ th[t].pc = "l63"
  /\ LET q == quota_delay(th[t].request_count, th[t].now - state["timer_start"])
         call == [th[t] EXCEPT !.timer_start = state["timer_start"]]
     IN th' = [th EXCEPT ![t] =
                 IF ~q.over THEN At(call, "l80")
                 ELSE IF q.delay > 0
                   THEN [At(call, "l76") EXCEPT !.delay = q.delay]
                   ELSE At(call, "l77")]
  /\ UNCHANGED <<state, clock, returns, calls, ticks, request, overlaps, last>>

\* Line 80: the incremented count is stored; the return of line 82 follows.
StoreCount(t) ==
  /\ th[t].pc = "l80"
  /\ state' = Put(state, "request_count", th[t].request_count)
  /\ th' = [th EXCEPT ![t] = At(th[t], "l82")]
  /\ UNCHANGED <<clock, returns, calls, ticks, request, overlaps, last>>

\* Line 76: time.sleep(delay) is entered.
Sleep(t) ==
  /\ th[t].pc = "l76"
  /\ th' = [th EXCEPT ![t] = [At(th[t], "asleep") EXCEPT
                                !.wake = clock + th[t].delay]]
  /\ UNCHANGED <<state, clock, returns, calls, ticks, request, overlaps, last>>

\* Line 76: time.sleep returns, delay seconds after it began or later (when
\* the clock has already passed that time), whatever line the other thread
\* is at.
Wake(t) ==
  /\ th[t].pc = "asleep"
  /\ clock' = IF th[t].wake > clock THEN th[t].wake ELSE clock
  /\ th' = [th EXCEPT ![t] = At(th[t], "l77")]
  /\ UNCHANGED <<state, returns, calls, ticks, request, overlaps, last>>

\* Line 77: the window start is set to the time the call arrived.
ResetStart(t) ==
  /\ th[t].pc = "l77"
  /\ state' = Put(state, "timer_start", th[t].now)
  /\ th' = [th EXCEPT ![t] = At(th[t], "l78")]
  /\ UNCHANGED <<clock, returns, calls, ticks, request, overlaps, last>>

\* Line 78: the count is set to 1; the return of line 82 follows.
ResetCount(t) ==
  /\ th[t].pc = "l78"
  /\ state' = Put(state, "request_count", 1)
  /\ th' = [th EXCEPT ![t] = At(th[t], "l82")]
  /\ UNCHANGED <<clock, returns, calls, ticks, request, overlaps, last>>

\* Lines 60 and 82: the call of thread t returns: the record of the call with
\* the state it leaves, and its return time.
Leave(t) ==
  /\ th[t].pc \in {"l60", "l82"}
  /\ th' = [th EXCEPT ![t] = Idle]
  /\ returns' = Push(returns, clock)
  /\ last' = [op |-> "rate_limit_callback",
              idx |-> th[t].idx,
              now |-> th[t].now,
              fresh |-> th[t].fresh,
              timer_start |-> th[t].timer_start,
              request_count |-> th[t].request_count,
              slept |-> th[t].delay,
              after |-> state,
              out |-> Return(None)]
  /\ UNCHANGED <<state, clock, calls, ticks, request, overlaps>>

\* Time passes, wherever the threads are: between two lines of the callback
\* as well as during and beyond a sleep.
Tick(d) ==
  /\ ticks < MaxTicks
  /\ clock' = clock + d
  /\ ticks' = ticks + 1
  /\ UNCHANGED <<state, returns, calls, last, th, request, overlaps>>

(* ----------------- validate_customer_id, lowercase_value --------------- *)

\* str.lower() on one character.
lower(c) ==
  CASE c = "A" -> "a" [] c = "B" -> "b" [] c = "C" -> "c" [] c = "D" -> "d"
    [] c = "E" -> "e" [] c = "F" -> "f" [] c = "G" -> "g" [] c = "H" -> "h"
    [] c = "I" -> "i" [] c = "J" -> "j" [] c = "K" -> "k" [] c = "L" -> "l"
    [] c = "M" -> "m" [] c = "N" -> "n" [] c = "O" -> "o" [] c = "P" -> "p"
    [] c = "Q" -> "q" [] c = "R" -> "r" [] c = "S" -> "s" [] c = "T" -> "t"
    [] c = "U" -> "u" [] c = "V" -> "v" [] c = "W" -> "w" [] c = "X" -> "x"
    [] c = "Y" -> "y" [] c = "Z" -> "z" [] OTHER -> c

\* lowercase_value(value): a NEW value, strings lowercased at every depth,
\* keys and container types kept.
RECURSIVE lowercase_value(_)
lowercase_value(value) ==
  CASE value[1] = "dict" ->
         PyDict([k \in DOMAIN value[2] |-> lowercase_value(value[2][k])])
    [] value[1] = "str" ->
         PyStr([i \in DOMAIN value[2] |-> lower(value[2][i])])
    [] value[1] \in {"list", "tuple"} ->
         <<value[1], [i \in DOMAIN value[2] |-> lowercase_value(value[2][i])]>>
    [] value[1] = "set" ->
         PySet({lowercase_value(i) : i \in value[2]})
    [] OTHER -> value

\* The customer_profile texts the host may bind to a session.
ProfileTexts ==
  << "{\"customer_id\": \"ab1\"}",
     "{\"name\": \"x\"}",
     "[\"ab1\"]",
     "42",
     "null",
     "{customer_id: ab1",
     "" >>

\* json.loads on the texts above: the parsed value, or JSONDecodeError.
json_loads(text) ==
  CASE text = "{\"customer_id\": \"ab1\"}" ->
         Return(PyDict([customer_id |-> PyStr(<<"a", "b", "1">>)]))
    [] text = "{\"name\": \"x\"}" ->
         Return(PyDict([name |-> PyStr(<<"x">>)]))
    [] text = "[\"ab1\"]" -> Return(PyList(<<PyStr(<<"a", "b", "1">>)>>))
    [] text = "42" -> Return(PyInt(42))
    [] text = "null" -> Return(None)
    [] OTHER -> Raise("JSONDecodeError")

\* validate_customer_id(customer_id, session_state): the (valid, message)
\* pair it returns, or the exception that leaves it. Only JSONDecodeError and
\* KeyError are caught; .get on a parsed value that is no dict raises
\* AttributeError.
validate_customer_id(customer_id, session_state) ==
  IF "customer_profile" \notin DOMAIN session_state
    THEN Return(<<FALSE,
                  Text(<<"No customer profile selected. Please select a profile.">>)>>)
    ELSE LET parsed == json_loads(session_state["customer_profile"])
         IN IF parsed[1] = "raise"
              THEN Return(<<FALSE,
                     Text(<<"Customer profile couldn't be parsed. Please reload the customer data.">>)>>)
              ELSE IF ~isinstance(parsed[2], "dict")
                THEN Raise("AttributeError")
                ELSE LET stored_customer_id == get(parsed[2], "customer_id")
                     IN IF customer_id = stored_customer_id
                          THEN Return(<<TRUE, Text(<< >>)>>)
                          ELSE Return(<<FALSE,
                                 Text(<<"You cannot use the tool with customer_id ",
                                        customer_id, ", only for ",
                                        stored_customer_id, ".">>)>>)

(* ----------------------- before_tool, after_tool ----------------------- *)

Approved ==
  PyDict([status |-> Text(<<"approved">>),
          message |-> Text(<<"You can approve this discount; no manager needed.">>)])

CartModified ==
  PyDict([result |-> Text(<<"I have added and removed the requested items.">>)])

\* Lines 142-157: the rules keyed on the tool's name.
tool_rules(tool_name, args) ==
  LET amount == get(args, "value")
      cart ==
        IF /\ tool_name = "modify_cart"
           /\ get(args, "items_added") = PyBool(TRUE)
           /\ get(args, "items_removed") = PyBool(TRUE)
          THEN Return(CartModified)
          ELSE Return(None)
  IN IF tool_name = "sync_ask_for_approval" /\ truthy(amount)
       THEN IF amount[1] \notin {"int", "bool"}
              THEN Raise("TypeError")
              ELSE IF (IF amount[1] = "int" THEN amount[2] ELSE 1) <= 10
                THEN Return(Approved)
                ELSE cart
       ELSE cart

\* The args mapping as before_tool leaves it: lowercase_value builds a new
\* mapping and line 130 drops it, so the caller's mapping is not touched.
args_after_before_tool(args) ==
  LET lowered == lowercase_value(args) IN args

\* before_tool with the tool rules consulted before the customer_id check.
before_tool_rules_first(tool_name, args, session_state) ==
  LET seen == args_after_before_tool(args)
      ruled == tool_rules(tool_name, seen)
  IN IF ruled # Return(None)
       THEN ruled
       ELSE IF has(seen, "customer_id")
         THEN LET v == validate_customer_id(get(seen, "customer_id"), session_state)
              IN IF v[1] = "raise" THEN v
                 ELSE IF ~v[2][1] THEN Return(v[2][2])
                 ELSE Return(None)
         ELSE Return(None)

\* before_tool(tool, args, tool_context): what it returns, or the exception
\* that leaves it.
before_tool(tool_name, args, session_state) ==
  LET seen == args_after_before_tool(args)
  IN IF has(seen, "customer_id")
       THEN LET v == validate_customer_id(get(seen, "customer_id"), session_state)
            IN IF v[1] = "raise" THEN v
               ELSE IF ~v[2][1] THEN Return(v[2][2])
               ELSE tool_rules(tool_name, seen)
       ELSE tool_rules(tool_name, seen)

\* after_tool(tool, args, tool_context, tool_response): always None; .get on
\* a truthy response that is no dict raises AttributeError.
after_tool(tool_name, tool_response) ==
  IF /\ tool_name \in {"sync_ask_for_approval", "approve_discount"}
     /\ truthy(tool_response)
     /\ ~isinstance(tool_response, "dict")
    THEN Raise("AttributeError")
    ELSE Return(None)

ToolNames == {"sync_ask_for_approval", "modify_cart", "approve_discount", "get_cart"}

ab1 == PyStr(<<"a", "b", "1">>)
AB1 == PyStr(<<"A", "B", "1">>)
zz9 == PyStr(<<"z", "z", "9">>)

\* The argument mappings the agent sends.
ArgsSamples ==
  << EmptyDict,
     PyDict([customer_id |-> ab1]),
     PyDict([customer_id |-> AB1]),
     PyDict([customer_id |-> zz9]),
     PyDict([value |-> PyInt(0)]),
     PyDict([value |-> PyInt(-5)]),
     PyDict([value |-> PyInt(5)]),
     PyDict([value |-> PyInt(10)]),
     PyDict([value |-> PyInt(11)]),
     PyDict([value |-> None]),
     PyDict([customer_id |-> ab1, value |-> PyInt(5)]),
     PyDict([customer_id |-> zz9, value |-> PyInt(5)]),
     PyDict([customer_id |-> ab1, value |-> PyInt(0)]),
     PyDict([items_added |-> PyBool(TRUE), items_removed |-> PyBool(TRUE)]),
     PyDict([items_added |-> PyBool(TRUE), items_removed |-> PyBool(FALSE)]),
     PyDict([customer_id |-> zz9,
             items_added |-> PyBool(TRUE), items_removed |-> PyBool(TRUE)]),
     PyDict([Name |-> PyStr(<<"J", "o">>),
             tags |-> PyList(<<PyStr(<<"A">>), PyStr(<<"b">>)>>),
             opts |-> PySet({PyStr(<<"X">>), PyStr(<<"x">>)}),
             pair |-> PyTuple(<<PyStr(<<"Q">>), PyInt(1)>>),
             nested |-> PyDict([Key |-> PyStr(<<"V">>)])]),
     PyDict([Name |-> PyStr(<<"j", "o">>),
             tags |-> PyList(<<PyStr(<<"a">>)>>)]) >>

ToolResponses ==
  << None,
     EmptyDict,
     PyDict([status |-> PyStr(<<"a", "p", "p", "r", "o", "v", "e", "d">>)]),
     PyDict([status |-> PyStr(<<"o", "k">>)]) >>

\* The host binds a customer profile to the session.
SetProfile(text) ==
  /\ state' = Put(state, "customer_profile", text)
  /\ UNCHANGED <<throttle, last>>

BeforeTool(tool_name, args) ==
  /\ last' = [op |-> "before_tool",
              pre |-> state,
              tool |-> tool_name,
              args_in |-> args,
              args |-> args_after_before_tool(args),
              out |-> before_tool(tool_name, args, state)]
  /\ UNCHANGED <<state, throttle>>

AfterTool(tool_name, tool_response) ==
  /\ last' = [op |-> "after_tool",
              pre |-> state,
              tool |-> tool_name,
              response |-> tool_response,
              out |-> after_tool(tool_name, tool_response)]
  /\ UNCHANGED <<state, throttle>>

(* ----------------------------- before_agent ---------------------------- *)

\* The invocation context as before_agent reads it: inv.inputs, and
\* inv.run_config, which is None or an object with the attributes inputs and
\* extra_kwargs and a model_dump() that returns a value or raises.
\* Both are tuples: <<missing, inputs, run_config>> and
\* <<none, inputs, extra_kwargs, model_dump>>.
Inv(inputs, run_config) == <<FALSE, inputs, run_config>>
NoRunConfig == <<TRUE, None, None, Return(None)>>
NoInv == <<TRUE, None, NoRunConfig>>
RunConfig(inputs, extra_kwargs, model_dump) ==
  <<FALSE, inputs, extra_kwargs, model_dump>>

inv_missing(inv) == inv[1]
inv_inputs(inv) == inv[2]
inv_run_config(inv) == inv[3]
rc_none(run_config) == run_config[1]
rc_inputs(run_config) == run_config[2]
rc_extra_kwargs(run_config) == run_config[3]
rc_model_dump(run_config) == run_config[4]

\* Lines 194-206: the mappings among run_config.inputs,
\* run_config.extra_kwargs and run_config.model_dump(), in that order.
possible_sources(run_config) ==
  IF rc_none(run_config)
    THEN << >>
    ELSE (IF isinstance(rc_inputs(run_config), "dict")
            THEN <<rc_inputs(run_config)>> ELSE << >>)
         \o (IF isinstance(rc_extra_kwargs(run_config), "dict")
               THEN <<rc_extra_kwargs(run_config)>> ELSE << >>)
         \o (IF /\ rc_model_dump(run_config)[1] = "return"
                /\ isinstance(rc_model_dump(run_config)[2], "dict")
               THEN <<rc_model_dump(run_config)[2]>> ELSE << >>)

\* Lines 208-215: the loop over the sources, leaving at the first source that
\* has the key at its top level or under its inputs mapping.
RECURSIVE scan_sources(_)
scan_sources(sources) ==
  IF sources = << >>
    THEN None
    ELSE LET source == Head(sources)
             inputs_candidate == get(source, "inputs")
         IN IF has(source, "sessionMetadata")
              THEN get(source, "sessionMetadata")
              ELSE IF /\ isinstance(inputs_candidate, "dict")
                      /\ has(inputs_candidate, "sessionMetadata")
                THEN get(inputs_candidate, "sessionMetadata")
                ELSE scan_sources(Tail(sources))

\* Lines 185-187 left out: inv.inputs is never read.
find_session_meta_no_direct(inv) ==
  scan_sources(possible_sources(inv_run_config(inv)))

\* Lines 182-215: session_meta as line 217 finds it.
find_session_meta(inv) ==
  LET direct == IF isinstance(inv_inputs(inv), "dict")
                  THEN get(inv_inputs(inv), "sessionMetadata")
                  ELSE None
  IN IF ~isinstance(direct, "none")
       THEN direct
       ELSE scan_sources(possible_sources(inv_run_config(inv)))

\* Line 217 as "session_meta is not None".
before_agent_store_any(inv, session_state) ==
  IF inv_missing(inv)
    THEN session_state
    ELSE LET session_meta == find_session_meta(inv)
         IN IF ~isinstance(session_meta, "none")
              THEN Put(session_state, "session_metadata", session_meta)
              ELSE session_state

\* before_agent(callback_context): the session state it leaves. It returns
\* None on every path; the dumps of lines 221-245 are logged only.
before_agent(inv, session_state) ==
  IF inv_missing(inv)
    THEN session_state
    ELSE LET session_meta == find_session_meta(inv)
         IN IF truthy(session_meta)
              THEN Put(session_state, "session_metadata", session_meta)
              ELSE session_state

\* Metadata values, one per place they can be found in.
Meta(n) == PyDict([chat |-> PyInt(n)])
Top(v) == PyDict([sessionMetadata |-> v])
Nested(v) == PyDict([inputs |-> PyDict([sessionMetadata |-> v])])
Both(v, w) ==
  PyDict([sessionMetadata |-> v, inputs |-> PyDict([sessionMetadata |-> w])])

DirectInputs ==
  << None, EmptyDict, Top(EmptyDict), Top(None), Top(Meta(1)), Nested(Meta(1)) >>
RunConfigInputs ==
  << None, EmptyDict, Top(None), Top(Meta(2)), Nested(Meta(3)),
     Both(Meta(2), Meta(3)) >>
ExtraKwargs ==
  << None, Top(Meta(4)), Nested(Meta(5)) >>
ModelDumps ==
  << Raise("ValueError"), Return(EmptyDict), Return(Top(Meta(6))),
     Return(Nested(Meta(7))) >>

BeforeAgent(inv) ==
  /\ state' = before_agent(inv, state)
  /\ last' = [op |-> "before_agent",
              pre |-> state,
              inv |-> inv,
              out |-> Return(None)]
  /\ UNCHANGED throttle

Init ==
  /\ state = EmptyState
  /\ clock = 0
  /\ returns = << >>
  /\ calls = 0
  /\ ticks = 0
  /\ th = [t \in Threads |-> Idle]
  /\ request = Return(<<Parts(<<"hi", " ">>), Parts(<< >>)>>)
  /\ overlaps = 0
  /\ last = [op |-> "none", out |-> Return(None)]

ThrottleNext ==
  \/ \E t \in Threads, i \in DOMAIN RequestContents : Begin(t, RequestContents[i])
  \/ \E t \in Threads : TakeTime(t)
  \/ \E t \in Threads : TestStart(t)
  \/ \E t \in Threads : OpenWindow(t)
  \/ \E t \in Threads : OpenCount(t)
  \/ \E t \in Threads : ReadCount(t)
  \/ \E t \in Threads : ReadStart(t)
  \/ \E t \in Threads : StoreCount(t)
  \/ \E t \in Threads : Sleep(t)
  \/ \E t \in Threads : Wake(t)
  \/ \E t \in Threads : ResetStart(t)
  \/ \E t \in Threads : ResetCount(t)
  \/ \E t \in Threads : Leave(t)
  \/ \E d \in TickSteps : Tick(d)

ThrottleSpec == Init /\ [][ThrottleNext]_vars

ToolNext ==
  \/ \E i \in DOMAIN ProfileTexts : SetProfile(ProfileTexts[i])
  \/ \E t \in ToolNames, i \in DOMAIN ArgsSamples : BeforeTool(t, ArgsSamples[i])
  \/ \E t \in ToolNames, i \in DOMAIN ToolResponses : AfterTool(t, ToolResponses[i])

ToolSpec == Init /\ [][ToolNext]_vars

AgentNext ==
  \/ BeforeAgent(NoInv)
  \/ \E i \in DOMAIN DirectInputs : BeforeAgent(Inv(DirectInputs[i], NoRunConfig))
  \/ \E i \in DOMAIN DirectInputs, j \in DOMAIN RunConfigInputs,
        k \in DOMAIN ExtraKwargs, m \in DOMAIN ModelDumps :
          BeforeAgent(Inv(DirectInputs[i],
                          RunConfig(RunConfigInputs[j], ExtraKwargs[k], ModelDumps[m])))

AgentSpec == Init /\ [][AgentNext]_vars

(* ------------------------------- claims -------------------------------- *)

IsRateLimit == last.op = "rate_limit_callback" /\ last.out[1] = "return"
IsBeforeTool == last.op = "before_tool"

\* Seconds between the latest call's arrival and the window start it read.
Elapsed == last.now - last.timer_start

\* C1: no more than RPM_QUOTA calls return inside any rolling
\* RATE_LIMIT_SECS-second interval: of any RPM_QUOTA + 1 consecutive returns,
\* the last is at least RATE_LIMIT_SECS after the first. Stated for the
\* sessions whose calls never overlap, the only ones the design allows for.
C1_AtMostQuotaPerRollingWindow ==
  (overlaps = 0 /\ Len(returns) = RPM_QUOTA + 1) =>
    returns[RPM_QUOTA + 1] - returns[1] >= RATE_LIMIT_SECS

\* What C2 says of the latest call, the last.idx-th made on the session.
FirstWindow ==
  /\ last.idx = 1 =>
       /\ last.slept = 0
       /\ last.after["request_count"] = 1
       /\ last.after["timer_start"] = last.now
  /\ (last.idx \in 2..RPM_QUOTA /\ Elapsed <= RATE_LIMIT_SECS) =>
       /\ last.slept = 0
       /\ last.after["request_count"] = last.idx
       /\ last.after["timer_start"] = last.timer_start
  /\ (last.idx = RPM_QUOTA + 1 /\ Elapsed <= RATE_LIMIT_SECS) =>
       /\ last.slept = RATE_LIMIT_SECS - Elapsed + 1
       /\ last.slept > 0
       /\ last.after["timer_start"] = last.now
       /\ last.after["request_count"] = 1

\* C2: from a fresh session the first RPM_QUOTA calls made within
\* RATE_LIMIT_SECS of the first never sleep and leave request_count equal to
\* the number of calls made; call RPM_QUOTA + 1 made within that window sleeps
\* RATE_LIMIT_SECS - elapsed + 1 seconds and leaves timer_start at its arrival
\* time with request_count = 1. Stated for the sessions whose calls never
\* overlap.
C2_FirstWindow ==
  (IsRateLimit /\ overlaps = 0) => FirstWindow

\* C3: a call that arrives more than RATE_LIMIT_SECS after timer_start, or
\* that pushes the count above RPM_QUOTA, leaves a new timer_start (its
\* arrival time) and request_count = 1. Stated for the sessions whose calls
\* never overlap.
C3_ResetOnExpiryOrExceed ==
  (/\ IsRateLimit
   /\ overlaps = 0
   /\ ~last.fresh
   /\ \/ Elapsed > RATE_LIMIT_SECS
      \/ last.request_count > RPM_QUOTA) =>
    /\ last.after["timer_start"] = last.now
    /\ last.after["request_count"] = 1

\* C4: no callback lets an exception reach the host.
C4_NoExceptionEscapes == last.out[1] = "return"

\* C5: after before_tool the caller's args mapping holds every string value
\* lowercased, at any depth, keys and container types unchanged.
C5_ArgsLowercasedInPlace ==
  IsBeforeTool => last.args = lowercase_value(last.args_in)

\* The outcome of validate_customer_id on the latest before_tool call's
\* customer_id and session state.
Validated == validate_customer_id(get(last.args, "customer_id"), last.pre)

ProfileBound == "customer_profile" \in DOMAIN last.pre
Parsed == json_loads(last.pre["customer_profile"])
ProfileMatches ==
  /\ ProfileBound
  /\ Parsed[1] = "return"
  /\ isinstance(Parsed[2], "dict")
  /\ has(Parsed[2], "customer_id")
  /\ get(Parsed[2], "customer_id") = get(last.args, "customer_id")

\* C6: validate_customer_id returns (true, "") only when a profile is bound,
\* parses and stores exactly the candidate ID; in every other case it returns
\* false with a non-empty message.
C6_ValidateTotal ==
  (IsBeforeTool /\ has(last.args, "customer_id")) =>
    /\ Validated[1] = "return"
    /\ Validated[2][1] <=> ProfileMatches
    /\ Validated[2][1] => Validated[2][2] = Text(<< >>)
    /\ ~Validated[2][1] => truthy(Validated[2][2])

\* C7: when args holds a customer_id that fails validation, before_tool
\* returns the remediation message as its whole result, whatever the tool and
\* the other arguments; and no customer_id that does not validate is answered
\* with the approval or the cart confirmation.
C7_CustomerIdCheckedFirst ==
  (IsBeforeTool /\ has(last.args, "customer_id")) =>
    /\ (Validated[1] = "return" /\ ~Validated[2][1]) =>
         /\ last.out = Return(Validated[2][2])
         /\ truthy(Validated[2][2])
    /\ (Validated[1] = "raise" \/ ~Validated[2][1]) =>
         last.out \notin {Return(Approved), Return(CartModified)}

\* C7's case: sync_ask_for_approval with an approvable value and a
\* customer_id that is not the profile's is answered with the message.
C7_Witness ==
  /\ IsBeforeTool
  /\ last.tool = "sync_ask_for_approval"
  /\ has(last.args, "customer_id")
  /\ get(last.args, "value") = PyInt(5)
  /\ ProfileBound
  /\ Parsed = Return(PyDict([customer_id |-> ab1]))
  /\ last.out = Return(Text(<<"You cannot use the tool with customer_id ",
                              zz9, ", only for ", ab1, ".">>))

\* The latest before_tool call carries no customer_id that fails validation.
NoFailingCustomerId ==
  has(last.args, "customer_id") =>
    (Validated[1] = "return" /\ Validated[2][1])

\* C8: for sync_ask_for_approval with no failing customer_id, before_tool
\* returns the approval for every value that is present and <= 10, and None
\* when value is absent or greater than 10.
C8_ApprovalRule ==
  (/\ IsBeforeTool
   /\ last.tool = "sync_ask_for_approval"
   /\ NoFailingCustomerId) =>
    LET amount == get(last.args, "value")
    IN /\ (isinstance(amount, "int") /\ amount[2] <= 10) =>
            last.out = Return(Approved)
       /\ (~has(last.args, "value") \/ (isinstance(amount, "int") /\ amount[2] > 10)) =>
            last.out = Return(None)

IsBeforeAgent == last.op = "before_agent" /\ ~inv_missing(last.inv)

\* The value under sessionMetadata at the top level of a mapping (nested =
\* FALSE) or under its inputs mapping (nested = TRUE), and whether the key
\* is there at all.
Place(container, nested) ==
  LET inner == IF ~nested THEN container
               ELSE IF isinstance(container, "dict")
                 THEN get(container, "inputs") ELSE None
      found == isinstance(inner, "dict") /\ has(inner, "sessionMetadata")
  IN [found |-> found,
      value |-> IF found THEN get(inner, "sessionMetadata") ELSE None]

\* The seven places of the lookup, in priority order: inv.inputs, then
\* run_config.inputs, run_config.extra_kwargs and the dump of run_config,
\* each at its top level and then under its inputs mapping.
Places(inv) ==
  LET rc == inv_run_config(inv)
      in_rc == IF rc_none(rc) THEN None ELSE rc_inputs(rc)
      in_extra == IF rc_none(rc) THEN None ELSE rc_extra_kwargs(rc)
      in_dump == IF rc_none(rc) \/ rc_model_dump(rc)[1] = "raise"
                   THEN None ELSE rc_model_dump(rc)[2]
  IN << Place(inv_inputs(inv), FALSE),
        Place(in_rc, FALSE), Place(in_rc, TRUE),
        Place(in_extra, FALSE), Place(in_extra, TRUE),
        Place(in_dump, FALSE), Place(in_dump, TRUE) >>

HasValue(place) == place.found /\ ~isinstance(place.value, "none")

\* The state before_agent must leave when place i decides (0: no place does).
DecidedBy(i) ==
  IF i # 0 /\ truthy(Places(last.inv)[i].value)
    THEN state = Put(last.pre, "session_metadata", Places(last.inv)[i].value)
    ELSE state = last.pre

AbsentEverywhere ==
  inv_missing(last.inv) \/ \A i \in 1..7 : ~Places(last.inv)[i].found

\* C9 as stated: a sessionMetadata key in inv.inputs is copied into state
\* whatever its value; with the key absent everywhere the state is unchanged.
C9_CopiedWhateverTheValue ==
  last.op = "before_agent" =>
    /\ (~inv_missing(last.inv) /\ Places(last.inv)[1].found) =>
         state = Put(last.pre, "session_metadata", Places(last.inv)[1].value)
    /\ AbsentEverywhere => (state = last.pre /\ last.out = Return(None))

\* C9, amended: a sessionMetadata key in inv.inputs is copied verbatim into
\* state when its value is truthy; a falsy value other than None there leaves
\* the state unchanged; with the key absent everywhere the state is unchanged
\* and before_agent returns normally.
C9_CopiedWhenTruthy ==
  last.op = "before_agent" =>
    /\ (~inv_missing(last.inv) /\ Places(last.inv)[1].found) =>
         LET v == Places(last.inv)[1].value
         IN /\ truthy(v) => state = Put(last.pre, "session_metadata", v)
            /\ (~truthy(v) /\ ~isinstance(v, "none")) => state = last.pre
    /\ AbsentEverywhere => (state = last.pre /\ last.out = Return(None))
    /\ last.out = Return(None)

\* C9's case: metadata directly in inv.inputs, other metadata in run_config,
\* a session that held none before.
C9_Witness ==
  /\ IsBeforeAgent
  /\ inv_inputs(last.inv) = Top(Meta(1))
  /\ ~rc_none(inv_run_config(last.inv))
  /\ Places(last.inv)[2].found
  /\ "session_metadata" \notin DOMAIN last.pre
  /\ state["session_metadata"] = Meta(1)

\* The first place in priority order that satisfies holds, or 0.
FirstPlace(holds(_)) ==
  IF \E i \in 1..7 : holds(Places(last.inv)[i])
    THEN CHOOSE i \in 1..7 :
           /\ holds(Places(last.inv)[i])
           /\ \A j \in 1..(i - 1) : ~holds(Places(last.inv)[j])
    ELSE 0

\* C10 as stated: the first place in priority order that holds metadata (its
\* key is there with a value other than None) decides what is written, and a
\* lower place is used whenever all higher ones hold none.
C10_FirstHoldingPlaceWins ==
  IsBeforeAgent => DecidedBy(FirstPlace(HasValue))

\* A place stops the lookup when its key is there at all; inv.inputs, read
\* with .get, only when the value is not None.
Stops(i) ==
  IF i = 1 THEN HasValue(Places(last.inv)[1]) ELSE Places(last.inv)[i].found

FirstStop ==
  IF \E i \in 1..7 : Stops(i)
    THEN CHOOSE i \in 1..7 : Stops(i) /\ \A j \in 1..(i - 1) : ~Stops(j)
    ELSE 0

\* C10, amended: the lookup stops at the first place in priority order whose
\* sessionMetadata key is present (for inv.inputs: present with a value other
\* than None); that place's value is written when it is truthy and nothing is
\* written otherwise; a lower place is used only when the key is missing from
\* every higher one.
C10_FirstPresentKeyWins ==
  IsBeforeAgent => DecidedBy(FirstStop)

\* C10's case: nothing in inv.inputs or run_config.inputs, metadata under
\* extra_kwargs.inputs and in the dump: the former is written.
C10_Witness ==
  /\ IsBeforeAgent
  /\ FirstStop = 5
  /\ Places(last.inv)[6].found
  /\ "session_metadata" \notin DOMAIN last.pre
  /\ state["session_metadata"] = Meta(5)

====
